---- MODULE Spec2Model ----
(***************************************************************************)
(* A model of dalymi/resources.py: the Resource contract (location         *)
(* templates, check / delete / load / save, integrity assertions), the     *)
(* LocalFileMixin and the two concrete kinds PandasCSV and Pickle, acting   *)
(* on a file store made of regular files and directories.                  *)
(*                                                                         *)
(* A path is the sequence of its components ("d/x/f" is <<"d","x","f">>);  *)
(* a location template is a sequence of segments, one per component, each  *)
(* a literal or a {key} replacement field.                                 *)
(***************************************************************************)
EXTENDS Naturals, Sequences, FiniteSets, TLC

VARIABLES
    files,   \* regular files of the store: path -> content
    dirs,    \* directories of the store: a set of paths
    res,     \* the constructed resource instances, in construction order
    heap,    \* the list objects: list id -> sequence of assertions
    last,    \* the latest call and its outcome
    hist,    \* per path: the latest calls that touched it
    mk       \* the processes running makedirs side by side

vars == <<files, dirs, res, heap, last, hist, mk>>

-----------------------------------------------------------------------------
(* Bounds of the model.                                                    *)

\* blob values are 0 .. MaxVal
MaxVal == 1
\* resource instances constructed in SpecAlias
MaxRes == 2
\* the length an assertion list grows to by in-place appends in SpecAlias
MaxList == 2
\* rows of a tabular value in SpecRT
MaxRows == 2

-----------------------------------------------------------------------------
(* Values.                                                                 *)

NoData == [t |-> "none"]
Obj(v) == [t |-> "obj", v |-> v]
\* a value pickle cannot serialise (a lambda, a generator, an open file)
Fn == [t |-> "fn"]
DF(cols, rows) == [t |-> "df", cols |-> cols, rows |-> rows]

IntCell(n) == [t |-> "int", v |-> n]
FloatCell(n) == [t |-> "float", v |-> n]
StrCell(s) == [t |-> "str", v |-> s]
NaN == [t |-> "nan"]

Range(s) == {s[i] : i \in DOMAIN s}

\* outcomes: kind is the exception class, resource and what are the names the
\* message carries ("-" when it carries none)
Ok == [kind |-> "ok", resource |-> "-", what |-> "-"]
Err(kind, resource, what) == [kind |-> kind, resource |-> resource, what |-> what]

-----------------------------------------------------------------------------
(* Location templates: str.format on loc with the context as keywords.    *)

Lit(s) == [t |-> "lit", s |-> s]
Key(k) == [t |-> "key", s |-> k]

\* the replacement fields of a template
Placeholders(loc) == {loc[i].s : i \in {j \in DOMAIN loc : loc[j].t = "key"}}

\* a format that fills a missing field with nothing instead of raising
RECURSIVE format_lenient(_, _)
format_lenient(loc, context) ==
    IF loc = <<>> THEN [ok |-> TRUE, path |-> <<>>, key |-> "-"]
    ELSE LET seg == Head(loc)
             here == IF seg.t = "lit" THEN seg.s
                     ELSE IF seg.s \in DOMAIN context THEN context[seg.s] ELSE ""
         IN [ok |-> TRUE, path |-> <<here>> \o format_lenient(Tail(loc), context).path,
             key |-> "-"]

\* str.format walks the template left to right; the first replacement field
\* with no keyword argument raises KeyError(field); keyword arguments no field
\* names are not looked at
RECURSIVE format(_, _)
format(loc, context) ==
    IF loc = <<>> THEN [ok |-> TRUE, path |-> <<>>, key |-> "-"]
    ELSE LET seg == Head(loc)
         IN IF seg.t = "key" /\ seg.s \notin DOMAIN context
            THEN [ok |-> FALSE, path |-> <<>>, key |-> seg.s]
            ELSE LET rest == format(Tail(loc), context)
                     here == IF seg.t = "key" THEN context[seg.s] ELSE seg.s
                 IN IF rest.ok
                    THEN [ok |-> TRUE, path |-> <<here>> \o rest.path, key |-> "-"]
                    ELSE rest

-----------------------------------------------------------------------------
(* The file store.                                                         *)

Prefix(path, n) == SubSeq(path, 1, n)
\* os.path.dirname
dirname(path) == Prefix(path, Len(path) - 1)
\* os.path.exists
exists(fs, ds, path) == path \in DOMAIN fs \/ path \in ds
\* os.path.isfile
isfile(fs, path) == path \in DOMAIN fs

\* os.makedirs called without exist_ok
exist_ok_default == FALSE

\* exist_ok, as LocalFileMixin.makedirs passes it
exist_ok == TRUE

\* os.makedirs on a target, as the steps it takes.  It first climbs from the
\* target towards the root until the parent of the level exists (pc up), then
\* walks back down with one mkdir per level (pc down).  A level's mkdir that
\* finds a directory in place is accepted when exist_ok; otherwise, and when
\* it finds a regular file, it raises FileExistsError, which an outer level
\* swallows before it goes on to its own mkdir; one whose parent is missing or no directory
\* raises and ends the call.
MkIdle == [pc |-> "idle", target |-> <<>>, lvl |-> 0, err |-> "ok"]

MkStart(path) ==
    LET d == dirname(path)
    IN IF d = <<>>
       THEN [pc |-> "done", target |-> d, lvl |-> 0, err |-> "ok"]
       ELSE [pc |-> "up", target |-> d, lvl |-> Len(d), err |-> "ok"]

\* one step of a running makedirs: the process state and the directories after
MkStep(m, fs, ds) ==
    LET name == Prefix(m.target, m.lvl)
        head == Prefix(m.target, m.lvl - 1)
        next == IF m.lvl = Len(m.target)
                THEN [m EXCEPT !.pc = "done"]
                ELSE [m EXCEPT !.lvl = m.lvl + 1]
        fail(e) == [m EXCEPT !.pc = "done", !.err = e]
    IN IF m.pc = "up"
       THEN IF m.lvl > 1 /\ ~exists(fs, ds, head)
            THEN [m |-> [m EXCEPT !.lvl = m.lvl - 1], dirs |-> ds]
            ELSE [m |-> [m EXCEPT !.pc = "down"], dirs |-> ds]
       ELSE IF name \in ds
            THEN IF exist_ok \/ m.lvl < Len(m.target)
                 THEN [m |-> next, dirs |-> ds]
                 ELSE [m |-> fail("FileExistsError:dir"), dirs |-> ds]
            ELSE IF name \in DOMAIN fs
                 THEN IF m.lvl < Len(m.target)
                      THEN [m |-> next, dirs |-> ds]
                      ELSE [m |-> fail("FileExistsError:file"), dirs |-> ds]
                 ELSE IF m.lvl > 1 /\ head \notin ds
                      THEN [m |-> fail("NotADirectoryError"), dirs |-> ds]
                      ELSE [m |-> next, dirs |-> ds \cup {name}]

\* a makedirs that runs with nothing else in between
RECURSIVE MkRun(_, _, _)
MkRun(m, fs, ds) ==
    IF m.pc = "done" THEN [err |-> m.err, dirs |-> ds]
    ELSE LET s == MkStep(m, fs, ds) IN MkRun(s.m, fs, s.dirs)

\* LocalFileMixin.makedirs(path)
makedirs(fs, ds, path) == MkRun(MkStart(path), fs, ds)

-----------------------------------------------------------------------------
(* File contents and the two encodings.                                    *)

Empty == [fmt |-> "empty"]

\* what pickle.dump can serialise
picklable(v) == v.t # "fn"
\* pickle.dump(data, f)
dump(v) == [fmt |-> "pkl", v |-> v]
\* pickle.load(f): the value, or EOFError on an empty file and
\* UnpicklingError on bytes that are no pickle
pickle_load(c) ==
    IF c.fmt = "pkl" THEN [err |-> Ok, data |-> c.v]
    ELSE IF c.fmt = "empty" THEN [err |-> Err("EOFError", "-", "-"), data |-> NoData]
    ELSE [err |-> Err("UnpicklingError", "-", "-"), data |-> NoData]

\* the text to_csv writes for a cell
CellText(c) ==
    CASE c.t = "int" -> ToString(c.v)
      [] c.t = "float" -> ToString(c.v) \o ".0"
      [] c.t = "str" -> c.v
      [] OTHER -> ""

\* DataFrame.to_csv(path, index=False): the header row, then the rows as text
to_csv(df) ==
    [fmt |-> "csv", header |-> df.cols,
     rows |-> [i \in DOMAIN df.rows |->
                 [j \in DOMAIN df.cols |-> CellText(df.rows[i][j])]]]

IsIntText(s) == \E n \in 0..MaxVal : ToString(n) = s
ParseInt(s) == CHOOSE n \in 0..MaxVal : ToString(n) = s

\* pd.read_csv(path): the header row names the columns, and every column's type
\* is inferred from its texts: all integers -> int64; integers and blanks ->
\* float64 with NaN for the blanks; anything else -> object, blanks read as NaN
read_cell(texts, s) ==
    IF texts # {} /\ \A x \in texts : IsIntText(x) THEN IntCell(ParseInt(s))
    ELSE IF \A x \in texts : x = "" \/ IsIntText(x)
         THEN IF s = "" THEN NaN ELSE FloatCell(ParseInt(s))
         ELSE IF s = "" THEN NaN ELSE StrCell(s)

read_csv(c) ==
    IF c.fmt = "empty" THEN [err |-> Err("EmptyDataError", "-", "-"), data |-> NoData]
    ELSE IF c.fmt = "pkl" THEN [err |-> Err("UnicodeDecodeError", "-", "-"), data |-> NoData]
    ELSE LET col(j) == {c.rows[i][j] : i \in DOMAIN c.rows}
         IN [err |-> Ok,
             data |-> DF(c.header,
                         [i \in DOMAIN c.rows |->
                            [j \in DOMAIN c.header |-> read_cell(col(j), c.rows[i][j])]])]

-----------------------------------------------------------------------------
(* Resource kinds.  LocalFile is a kind that composes LocalFileMixin with  *)
(* Resource and adds nothing, as the mix-in's docstring describes.         *)

Kinds == {"Resource", "PandasDF", "PandasCSV", "Pickle", "LocalFile"}

\* the kinds whose method resolution finds LocalFileMixin.check / delete
\* before Resource's
HasLocalFile(kind) == kind \in {"PandasCSV", "Pickle", "LocalFile"}
\* the kinds that define load and save
HasLoadSave(kind) == kind \in {"PandasCSV", "Pickle"}
\* the kinds constructed by PandasDF.__init__
IsTabular(kind) == kind \in {"PandasDF", "PandasCSV"}

NoColumns == [declared |-> FALSE, set |-> {}]
Columns(S) == [declared |-> TRUE, set |-> S]

\* a message that leaves the resource's name out
NotImplementedUnnamed(r, cap) == Err("NotImplementedError", "-", cap)

\* Resource.check / delete / load / save: the message names the resource and
\* the capability
NotImplemented(r, cap) == Err("NotImplementedError", r.name, cap)

-----------------------------------------------------------------------------
(* Integrity assertions.                                                   *)

\* the assertions callers declare: two sample rules, each an assert statement
\* on the data
CallerAssertions == {"nonzero", "hasrows"}

caller_assertion(a, data) ==
    IF a = "nonzero" /\ data.t = "obj" /\ data.v = 0
    THEN Err("AssertionError", "-", a)
    ELSE IF a = "hasrows" /\ data.t = "df" /\ data.rows = <<>>
         THEN Err("AssertionError", "-", a)
         ELSE Ok

\* PandasDF.assert_columns: nothing when no columns are declared; df.columns
\* raises AttributeError on a value that is no DataFrame; when the sets differ
\* the assert evaluates its message, whose set(df.columns, set(self.columns))
\* raises TypeError (set takes one argument) before AssertionError is raised
assert_columns(r, df) ==
    IF ~r.columns.declared THEN Ok
    ELSE IF df.t # "df" THEN Err("AttributeError", "-", "-")
    ELSE IF Range(df.cols) = r.columns.set THEN Ok
    ELSE Err("TypeError", "-", "-")

assertion(r, a, data) ==
    IF a = "assert_columns" THEN assert_columns(r, data) ELSE caller_assertion(a, data)

\* Resource.assert_integrity over a list: the assertions in list order, up to
\* and including the first that raises
RECURSIVE run_assertions(_, _, _)
run_assertions(r, list, data) ==
    IF list = <<>> THEN [ran |-> <<>>, err |-> Ok]
    ELSE LET e == assertion(r, Head(list), data)
         IN IF e # Ok THEN [ran |-> <<Head(list)>>, err |-> e]
            ELSE LET rest == run_assertions(r, Tail(list), data)
                 IN [ran |-> <<Head(list)>> \o rest.ran, err |-> rest.err]

\* Resource.assert_integrity: self.assertions is the list object the instance
\* refers to
assert_integrity(r, h, data) == run_assertions(r, h[r.alist], data)

-----------------------------------------------------------------------------
(* The four capabilities of a kind, on a resolved path.  Each yields the   *)
(* outcome, the store afterwards, what it returns, and whether it opened   *)
(* the file at the path for writing.                                       *)

Outcome(err, fs, ds, ret, opened) ==
    [err |-> err, files |-> fs, dirs |-> ds, ret |-> ret, opened |-> opened]

Bool(b) == [t |-> "bool", v |-> b]

\* the error open() or os.remove raise on a path that holds no regular file
NoFile(ds, path) ==
    IF path \in ds THEN Err("IsADirectoryError", "-", "-")
    ELSE Err("FileNotFoundError", "-", "-")

\* the exceptions that are OSError
IsOSError(e) ==
    e.kind \in {"FileNotFoundError", "IsADirectoryError", "NotADirectoryError",
                "FileExistsError"}

\* a check by os.path.exists, true for directories too
check_exists(r, fs, ds, path) ==
    IF HasLocalFile(r.kind) THEN Outcome(Ok, fs, ds, Bool(exists(fs, ds, path)), FALSE)
    ELSE Outcome(Err("NotImplementedError", r.name, "check"), fs, ds, NoData, FALSE)

\* LocalFileMixin.check, else Resource.check
check(r, fs, ds, path) ==
    IF HasLocalFile(r.kind) THEN Outcome(Ok, fs, ds, Bool(isfile(fs, path)), FALSE)
    ELSE Outcome(NotImplemented(r, "check"), fs, ds, NoData, FALSE)

\* a delete that accepts a missing file
delete_quiet(r, fs, ds, path) ==
    IF ~HasLocalFile(r.kind)
    THEN Outcome(Err("NotImplementedError", r.name, "delete"), fs, ds, NoData, FALSE)
    ELSE Outcome(Ok, [p \in DOMAIN fs \ {path} |-> fs[p]], ds, NoData, FALSE)

\* LocalFileMixin.delete (os.remove), else Resource.delete
delete(r, fs, ds, path) ==
    IF ~HasLocalFile(r.kind) THEN Outcome(NotImplemented(r, "delete"), fs, ds, NoData, FALSE)
    ELSE IF path \in DOMAIN fs
         THEN Outcome(Ok, [p \in DOMAIN fs \ {path} |-> fs[p]], ds, NoData, FALSE)
         ELSE Outcome(NoFile(ds, path), fs, ds, NoData, FALSE)

\* PandasCSV.load, Pickle.load, else Resource.load
load(r, fs, ds, path) ==
    IF ~HasLoadSave(r.kind) THEN Outcome(NotImplemented(r, "load"), fs, ds, NoData, FALSE)
    ELSE IF path \notin DOMAIN fs THEN Outcome(NoFile(ds, path), fs, ds, NoData, FALSE)
    ELSE LET d == IF r.kind = "Pickle" THEN pickle_load(fs[path]) ELSE read_csv(fs[path])
         IN Outcome(d.err, fs, ds, d.data, FALSE)

\* the store with content c written at the path
Write(fs, path, c) == [p \in DOMAIN fs \cup {path} |-> IF p = path THEN c ELSE fs[p]]

MkError(e) ==
    IF e = "NotADirectoryError" THEN Err("NotADirectoryError", "-", "-")
    ELSE Err("FileExistsError", "-", "-")

\* PandasCSV.save: makedirs, then data.to_csv(path, index=False)
\* Pickle.save: makedirs, then open(path, 'wb') and pickle.dump into it; the
\* open creates or truncates the file before dump runs
\* else Resource.save
save(r, fs, ds, path, data) ==
    IF ~HasLoadSave(r.kind) THEN Outcome(NotImplemented(r, "save"), fs, ds, NoData, FALSE)
    ELSE LET md == makedirs(fs, ds, path)
         IN IF md.err # "ok" THEN Outcome(MkError(md.err), fs, md.dirs, NoData, FALSE)
            ELSE IF r.kind = "PandasCSV"
            THEN IF data.t # "df"
                 THEN Outcome(Err("AttributeError", "-", "-"), fs, md.dirs, NoData, FALSE)
                 ELSE IF path \in md.dirs
                      THEN Outcome(NoFile(md.dirs, path), fs, md.dirs, NoData, FALSE)
                      ELSE Outcome(Ok, Write(fs, path, to_csv(data)), md.dirs, NoData, TRUE)
            ELSE IF path \in md.dirs
                 THEN Outcome(NoFile(md.dirs, path), fs, md.dirs, NoData, FALSE)
                 ELSE IF ~picklable(data)
                      THEN Outcome(Err("PicklingError", "-", "-"),
                                   Write(fs, path, Empty), md.dirs, NoData, TRUE)
                      ELSE Outcome(Ok, Write(fs, path, dump(data)), md.dirs, NoData, TRUE)

-----------------------------------------------------------------------------
(* The four operations of Resource.  Each yields the call's record: the    *)
(* operation, whether and to what the path was resolved, the assertions    *)
(* that ran, the outcome, and the store afterwards.                        *)

Call(op, i, context, data, f, ran, o) ==
    [op |-> op, rid |-> i, ctx |-> context, data |-> data,
     resolved |-> f.ok, path |-> f.path, ran |-> ran,
     err |-> o.err, ret |-> o.ret, files |-> o.files, dirs |-> o.dirs,
     opened |-> o.opened]

Unresolved == [ok |-> FALSE, path |-> <<>>, key |-> "-"]
KeyError(f) == Err("KeyError", "-", f.key)

_check(i, r, context, fs, ds) ==
    LET f == format(r.loc, context)
    IN IF ~f.ok
       THEN Call("check", i, context, NoData, f, <<>>, Outcome(KeyError(f), fs, ds, NoData, FALSE))
       ELSE Call("check", i, context, NoData, f, <<>>, check(r, fs, ds, f.path))

_delete(i, r, context, fs, ds) ==
    LET f == format(r.loc, context)
    IN IF ~f.ok
       THEN Call("delete", i, context, NoData, f, <<>>, Outcome(KeyError(f), fs, ds, NoData, FALSE))
       ELSE Call("delete", i, context, NoData, f, <<>>, delete(r, fs, ds, f.path))

\* the data field of a load's record is the value the kind's load produced
_load(i, r, h, context, fs, ds) ==
    LET f == format(r.loc, context)
    IN IF ~f.ok
       THEN Call("load", i, context, NoData, f, <<>>, Outcome(KeyError(f), fs, ds, NoData, FALSE))
       ELSE LET o == load(r, fs, ds, f.path)
            IN IF o.err # Ok THEN Call("load", i, context, NoData, f, <<>>, o)
               ELSE LET a == assert_integrity(r, h, o.ret)
                    IN IF a.err # Ok
                       THEN Call("load", i, context, o.ret, f, a.ran,
                                 Outcome(a.err, fs, ds, NoData, FALSE))
                       ELSE Call("load", i, context, o.ret, f, a.ran, o)

\* a save that writes before it runs the assertions
_save_writes_first(i, r, h, data, context, fs, ds) ==
    LET f == format(r.loc, context)
        a == assert_integrity(r, h, data)
    IN IF ~f.ok
       THEN Call("save", i, context, data, f, <<>>,
                 Outcome(KeyError(f), fs, ds, NoData, FALSE))
       ELSE LET o == save(r, fs, ds, f.path, data)
            IN IF o.err # Ok \/ a.err = Ok THEN Call("save", i, context, data, f, a.ran, o)
               ELSE Call("save", i, context, data, f, a.ran,
                         Outcome(a.err, o.files, o.dirs, NoData, o.opened))

_save(i, r, h, data, context, fs, ds) ==
    LET a == assert_integrity(r, h, data)
    IN IF a.err # Ok
       THEN Call("save", i, context, data, Unresolved, a.ran,
                 Outcome(a.err, fs, ds, NoData, FALSE))
       ELSE LET f == format(r.loc, context)
            IN IF ~f.ok
               THEN Call("save", i, context, data, f, a.ran,
                         Outcome(KeyError(f), fs, ds, NoData, FALSE))
               ELSE Call("save", i, context, data, f, a.ran, save(r, fs, ds, f.path, data))

-----------------------------------------------------------------------------
(* Inputs: the templates, contexts, values and stores the operations are   *)
(* exercised on.                                                           *)

Templates ==
    { <<Lit("f")>>,
      <<Lit("d"), Key("k")>>,
      <<Key("k"), Key("j"), Lit("f")>> }

Contexts ==
    { <<>>,
      [x \in {"k"} |-> "d"],
      [x \in {"j"} |-> "e"],
      [x \in {"k", "j"} |-> IF x = "k" THEN "d" ELSE "e"],
      [x \in {"k", "j"} |-> IF x = "k" THEN "f" ELSE "e"] }

Blobs == {Obj(v) : v \in 0..MaxVal} \cup {Fn}

Row1 == <<IntCell(0), IntCell(1)>>
Tables ==
    { DF(<<"a", "b">>, <<Row1>>),
      DF(<<"b", "a">>, <<>>),
      DF(<<"a", "c">>, <<Row1>>),
      DF(<<"a">>, <<<<IntCell(0)>>>>),
      DF(<<"a", "b", "c">>, <<>>) }

Data == Blobs \cup Tables

AssertionLists == { <<>>, <<"nonzero">>, <<"hasrows", "nonzero">> }

\* the stores a run starts from: what earlier runs of the program left behind
NoFiles == [p \in {} |-> Empty]
Stores ==
    { [files |-> NoFiles, dirs |-> {}],
      [files |-> [p \in {<<"f">>} |-> dump(Obj(1))], dirs |-> {}],
      [files |-> [p \in {<<"d", "d">>, <<"d", "f">>} |->
                    IF p = <<"d", "d">> THEN to_csv(DF(<<"b", "a">>, <<>>))
                    ELSE to_csv(DF(<<"a", "c">>, <<Row1>>))],
       dirs |-> {<<"d">>}],
      [files |-> NoFiles, dirs |-> {<<"d">>, <<"d", "d">>}] }

-----------------------------------------------------------------------------
(* Construction.                                                           *)

\* Resource.__init__: the instance refers to the list object it was given
Resource(kind, name, loc, columns, alist) ==
    [kind |-> kind, name |-> name, loc |-> loc, columns |-> columns, alist |-> alist]

\* the column rule put after the caller's assertions
PandasDFListLast(given) == given \o <<"assert_columns">>

\* PandasDF.__init__ builds a new list, [self.assert_columns] + assertions
PandasDFList(given) == <<"assert_columns">> \o given

\* the configurations of a single resource: its kind, template, declared
\* columns and the assertions its constructor was given
Configs ==
    { [kind |-> k, loc |-> t, columns |-> c, given |-> g] :
        k \in Kinds, t \in Templates,
        c \in {NoColumns, Columns({"a", "b"})}, g \in AssertionLists }

ValidConfig(cf) == cf.columns.declared => IsTabular(cf.kind)

\* the list objects that exist before any instance does: the default values of
\* the assertions parameter of Resource.__init__, PandasDF.__init__,
\* PandasCSV.__init__ and Pickle.__init__, each evaluated once, at definition
Defaults == << <<>>, <<>>, <<>>, <<>> >>

\* the default a constructor call without an assertions argument ends up with:
\* LocalFile has no __init__ of its own and runs Resource.__init__
DefaultList(kind) ==
    CASE kind \in {"Resource", "LocalFile"} -> 1
      [] kind = "PandasDF" -> 2
      [] kind = "PandasCSV" -> 3
      [] OTHER -> 4

\* a caller's new list object
NewList(h, content) == [heap |-> Append(h, content), id |-> Len(h) + 1]

\* kind(name, loc, columns, assertions): arg is the list object passed as
\* assertions, 0 when the argument is left out.  Pickle.__init__ and
\* PandasCSV.__init__ pass their argument on; Resource.__init__ keeps the
\* reference; PandasDF.__init__ hands it a list of its own making
Construct(h, kind, name, loc, columns, arg) ==
    LET given == IF arg = 0 THEN DefaultList(kind) ELSE arg
    IN IF IsTabular(kind)
       THEN LET n == NewList(h, PandasDFList(h[given]))
            IN [r |-> Resource(kind, name, loc, columns, n.id), heap |-> n.heap]
       ELSE [r |-> Resource(kind, name, loc, columns, given), heap |-> h]

\* the single resource of a configuration, given a new list by its caller
Construct1(cf) ==
    LET n == NewList(Defaults, cf.given)
    IN Construct(n.heap, cf.kind, "r1", cf.loc, cf.columns, n.id)

-----------------------------------------------------------------------------
(* The state machine: one resource, and the four operations called on it   *)
(* in any order with any context and data.                                 *)

NoCall ==
    [op |-> "none", rid |-> 0, ctx |-> <<>>, data |-> NoData, resolved |-> FALSE,
     path |-> <<>>, ran |-> <<>>, err |-> Ok, ret |-> NoData, opened |-> FALSE]

\* the call's record without the store
Record(c) == [k \in DOMAIN NoCall |-> c[k]]

NoHist == [succ |-> "none", partial |-> FALSE, data |-> NoData]
HistOf(h, p) == IF p \in DOMAIN h THEN h[p] ELSE NoHist
SetHist(h, p, v) == [q \in DOMAIN h \cup {p} |-> IF q = p THEN v ELSE h[q]]

\* what a finished call adds to the history of its path
Remember(h, c) ==
    IF c.op = "save" /\ c.err = Ok
    THEN SetHist(h, c.path, [succ |-> "save", partial |-> FALSE, data |-> c.data])
    ELSE IF c.op = "save" /\ c.opened
    THEN SetHist(h, c.path, [HistOf(h, c.path) EXCEPT !.partial = TRUE, !.data = NoData])
    ELSE IF c.op = "delete" /\ c.err = Ok
    THEN SetHist(h, c.path, [succ |-> "delete", partial |-> FALSE, data |-> NoData])
    ELSE h

Apply(c) ==
    /\ files' = c.files
    /\ dirs' = c.dirs
    /\ last' = Record(c)
    /\ hist' = Remember(hist, c)
    /\ UNCHANGED <<res, heap, mk>>

Check ==
    \E i \in DOMAIN res, c \in Contexts : Apply(_check(i, res[i], c, files, dirs))

Delete ==
    \E i \in DOMAIN res, c \in Contexts : Apply(_delete(i, res[i], c, files, dirs))

Load ==
    \E i \in DOMAIN res, c \in Contexts : Apply(_load(i, res[i], heap, c, files, dirs))

Save ==
    \E i \in DOMAIN res, c \in Contexts, d \in Data :
        Apply(_save(i, res[i], heap, d, c, files, dirs))

Init ==
    /\ \E st \in Stores : files = st.files /\ dirs = st.dirs
    /\ \E cf \in Configs :
         /\ ValidConfig(cf)
         /\ res = <<Construct1(cf).r>>
         /\ heap = Construct1(cf).heap
    /\ last = NoCall
    /\ hist = <<>>
    /\ mk = <<>>

Next == Check \/ Delete \/ Load \/ Save

Spec == Init /\ [][Next]_vars

-----------------------------------------------------------------------------
(* Properties of the four operations (specification Spec).                 *)

\* the resource and the registered assertions of the latest call
LastRes == res[last.rid]
Registered(r) == heap[r.alist]
\* some registered assertion fails on the data / they all pass
SomeFails(r, data) ==
    \E k \in DOMAIN Registered(r) : assertion(r, Registered(r)[k], data) # Ok
AllPass(r, data) == ~SomeFails(r, data)
IsCall == last.op \in {"check", "delete", "load", "save"}

\* C1: when a registered assertion fails on the data passed to save, the save
\* fails without resolving the path and leaves files and directories exactly as
\* they were; if the path the context resolves to held no file, a check for
\* the same context right afterwards returns false.
C1_FailedAssertionWritesNothing ==
    [][(last'.op = "save" /\ SomeFails(res[last'.rid], last'.data))
        => LET r == res[last'.rid]
               f == format(r.loc, last'.ctx)
           IN /\ last'.err # Ok
              /\ ~last'.resolved
              /\ ~last'.opened
              /\ files' = files
              /\ dirs' = dirs
              /\ (f.ok /\ f.path \notin DOMAIN files /\ HasLocalFile(r.kind))
                    => _check(last'.rid, r, last'.ctx, files', dirs').ret = Bool(FALSE)]_vars

\* a save stopped by an assertion, for a context that resolves to a path with
\* no file
C1_Witness ==
    /\ last.op = "save"
    /\ SomeFails(LastRes, last.data)
    /\ last.err.kind \in {"AssertionError", "TypeError"}
    /\ HasLoadSave(LastRes.kind)
    /\ format(LastRes.loc, last.ctx).ok
    /\ format(LastRes.loc, last.ctx).path \notin DOMAIN files

IsPrefix(a, b) == Len(a) <= Len(b) /\ a = SubSeq(b, 1, Len(a))

\* C2: load runs assertions only after the path was resolved and the kind's
\* load produced the data; the assertions that ran are a prefix of the
\* registered list in its order (for a tabular kind the column rule is first),
\* every one before the last that ran passed, it stops at the first failure,
\* and the data is returned exactly when the whole list ran and passed.
C2_LoadAssertsInOrder ==
    last.op = "load" =>
        LET r == LastRes
            list == Registered(r)
            loaded == last.data # NoData
        IN /\ loaded => last.resolved
           /\ last.ran # <<>> => loaded
           /\ IsPrefix(last.ran, list)
           /\ IsTabular(r.kind) => list[1] = "assert_columns"
           /\ \A k \in DOMAIN last.ran :
                 k < Len(last.ran) => assertion(r, list[k], last.data) = Ok
           /\ (loaded /\ Len(last.ran) < Len(list))
                 => /\ last.ran # <<>>
                    /\ assertion(r, list[Len(last.ran)], last.data) # Ok
                    /\ last.err = assertion(r, list[Len(last.ran)], last.data)
           /\ (last.ret # NoData) <=>
                 (loaded /\ last.ran = list /\ AllPass(r, last.data))
           /\ last.ret # NoData => last.ret = last.data /\ last.err = Ok

\* a tabular load whose column rule passed and whose second assertion failed,
\* with a third one left
C2_Witness ==
    /\ last.op = "load"
    /\ IsTabular(LastRes.kind)
    /\ LastRes.columns.declared
    /\ Len(Registered(LastRes)) = 3
    /\ last.ran = <<"assert_columns", "hasrows">>
    /\ last.err.kind = "AssertionError"
    /\ last.ret = NoData

\* C3: on a tabular resource that declares columns, a save or load of a table
\* whose column set differs from the declared set fails with AssertionError
\* naming the resource and the rule.
C3_ColumnMismatchIsIntegrityViolation ==
    (/\ last.op \in {"save", "load"}
     /\ IsTabular(LastRes.kind)
     /\ LastRes.columns.declared
     /\ last.data.t = "df"
     /\ Range(last.data.cols) # LastRes.columns.set)
        => /\ last.err.kind = "AssertionError"
           /\ last.err.resource = LastRes.name
           /\ last.err.what = "assert_columns"

\* the kind of the latest call has no implementation of the called capability
Unsupported ==
    \/ last.op \in {"check", "delete"} /\ ~HasLocalFile(LastRes.kind)
    \/ last.op \in {"load", "save"} /\ ~HasLoadSave(LastRes.kind)

\* C4, as claimed: every call of a capability the kind does not implement
\* fails with NotImplementedError.
C4_UnsupportedAlwaysNotImplemented ==
    Unsupported => last.err.kind = "NotImplementedError"

\* C4, amended: a call of a capability the kind does not implement leaves the
\* store unchanged, and when the context resolves the template (and, for save,
\* the data passes every assertion) it fails with NotImplementedError naming
\* the resource and the capability, which is neither an OSError, a KeyError
\* nor an assertion failure.
C4_UnsupportedWhenResolved ==
    [][Unsupported'
        => /\ files' = files
           /\ dirs' = dirs
           /\ last'.err # Ok
           /\ (/\ format(res[last'.rid].loc, last'.ctx).ok
               /\ last'.op = "save" => AllPass(res[last'.rid], last'.data))
                 => /\ last'.err.kind = "NotImplementedError"
                    /\ last'.err.resource = res[last'.rid].name
                    /\ last'.err.what = last'.op
                    /\ ~IsOSError(last'.err)]_vars

\* a delete on a kind without LocalFileMixin, with a resolving context
C4_Witness ==
    /\ last.op = "delete"
    /\ Unsupported
    /\ last.resolved
    /\ last.err = Err("NotImplementedError", "r1", "delete")

\* the call got as far as resolving its path
Resolving == IsCall /\ (last.op = "save" => AllPass(LastRes, last.data))

Restrict(context, keys) == [k \in DOMAIN context \cap keys |-> context[k]]

\* C5: path resolution fails with KeyError exactly when some placeholder of
\* the template is no key of the context, and the resolved path is the one the
\* context cut down to the template's placeholders resolves to.
C5_MissingKeyIff ==
    Resolving =>
        LET loc == LastRes.loc
            used == Restrict(last.ctx, Placeholders(loc))
        IN /\ (last.err.kind = "KeyError") <=> ~(Placeholders(loc) \subseteq DOMAIN last.ctx)
           /\ last.resolved <=> (Placeholders(loc) \subseteq DOMAIN last.ctx)
           /\ last.err.kind = "KeyError" => last.err.what \in Placeholders(loc) \ DOMAIN last.ctx
           /\ last.resolved => /\ Len(last.path) = Len(loc)
                               /\ last.path = format(loc, used).path

\* a path resolved from a context that has a key the template does not use
C5_Witness ==
    /\ Resolving
    /\ last.resolved
    /\ Placeholders(LastRes.loc) # {}
    /\ ~(DOMAIN last.ctx \subseteq Placeholders(LastRes.loc))

\* C6: on a local-file kind, a delete whose path holds no file fails with an
\* OSError and changes nothing; and a delete right after a successful delete
\* for the same context fails so.
C6_DeleteMissingFails ==
    [][/\ (/\ last'.op = "delete"
           /\ HasLocalFile(res[last'.rid].kind)
           /\ last'.resolved
           /\ last'.path \notin DOMAIN files)
             => IsOSError(last'.err) /\ files' = files /\ dirs' = dirs
       /\ (/\ last.op = "delete" /\ last.err = Ok
           /\ last'.op = "delete" /\ last'.rid = last.rid /\ last'.ctx = last.ctx)
             => IsOSError(last'.err) /\ files' = files /\ dirs' = dirs]_vars

\* a delete that failed on a path whose latest successful call was a delete
C6_Witness ==
    /\ last.op = "delete"
    /\ last.err.kind = "FileNotFoundError"
    /\ HistOf(hist, last.path).succ = "delete"
    /\ ~HistOf(hist, last.path).partial

LocalCheck == last.op = "check" /\ HasLocalFile(LastRes.kind) /\ last.resolved

\* C7, as claimed: check returns true iff a regular file is at the path: true
\* when the latest successful save or delete of the path was a save, false when
\* it was a delete.
C7_CheckFollowsLastSuccess ==
    LocalCheck =>
        /\ last.err = Ok
        /\ last.ret = Bool(last.path \in DOMAIN files)
        /\ HistOf(hist, last.path).succ = "save" => last.ret = Bool(TRUE)
        /\ HistOf(hist, last.path).succ = "delete" => last.ret = Bool(FALSE)

\* C7, amended: check never fails on a local-file kind once the path is
\* resolved, changes nothing, and returns true iff a regular file is at the
\* path: true when the latest successful save or delete of the path was a save,
\* false when it was a delete and no later save opened the file for writing
\* before failing.
C7_CheckIsFile ==
    [][(last'.op = "check" /\ HasLocalFile(res[last'.rid].kind) /\ last'.resolved)
        => /\ last'.err = Ok
           /\ files' = files /\ dirs' = dirs /\ hist' = hist
           /\ last'.ret = Bool(last'.path \in DOMAIN files)
           /\ HistOf(hist, last'.path).succ = "save" => last'.ret = Bool(TRUE)
           /\ (HistOf(hist, last'.path).succ = "delete" /\ ~HistOf(hist, last'.path).partial)
                 => last'.ret = Bool(FALSE)]_vars

\* a check that returned false on a path deleted after it had been saved to
C7_Witness ==
    /\ LocalCheck
    /\ last.ret = Bool(FALSE)
    /\ HistOf(hist, last.path).succ = "delete"
    /\ ~HistOf(hist, last.path).partial
    /\ last.path \notin dirs

-----------------------------------------------------------------------------
(* Round trips (specification SpecRT): one Pickle or PandasCSV resource on *)
(* an empty store, saving and loading tables with integer and text cells.  *)

\* the columns of the tables: a holds integers, b holds texts
ColA == {IntCell(v) : v \in 0..MaxVal}
ColB == {StrCell("x"), StrCell("1"), StrCell("")}

TablesRT ==
    UNION { { DF(<<"a", "b">>, [i \in 1..n |-> <<a[i], b[i]>>]) :
                a \in [1..n -> ColA], b \in [1..n -> ColB] } : n \in 0..MaxRows }

DataRT == TablesRT \cup Blobs

ConfigsRT ==
    { [kind |-> k, loc |-> <<Lit("d"), Key("k")>>, columns |-> c, given |-> <<>>] :
        k \in {"Pickle", "PandasCSV"}, c \in {NoColumns, Columns({"a", "b"})} }

ContextsRT == { [x \in {"k"} |-> "d"] }

InitRT ==
    /\ files = NoFiles
    /\ dirs = {}
    /\ \E cf \in ConfigsRT :
         /\ ValidConfig(cf)
         /\ res = <<Construct1(cf).r>>
         /\ heap = Construct1(cf).heap
    /\ last = NoCall
    /\ hist = <<>>
    /\ mk = <<>>

SaveRT ==
    \E i \in DOMAIN res, c \in ContextsRT, d \in DataRT :
        Apply(_save(i, res[i], heap, d, c, files, dirs))

LoadRT ==
    \E i \in DOMAIN res, c \in ContextsRT : Apply(_load(i, res[i], heap, c, files, dirs))

DeleteRT ==
    \E i \in DOMAIN res, c \in ContextsRT : Apply(_delete(i, res[i], c, files, dirs))

NextRT == SaveRT \/ LoadRT \/ DeleteRT

SpecRT == InitRT /\ [][NextRT]_vars

\* C8: a load of a path whose latest save or delete was a successful save of
\* data d succeeds and returns a value equal to d.
C8_RoundTrip ==
    (/\ last.op = "load"
     /\ last.resolved
     /\ HistOf(hist, last.path).succ = "save"
     /\ ~HistOf(hist, last.path).partial)
        => /\ last.err = Ok
           /\ last.ret = HistOf(hist, last.path).data

-----------------------------------------------------------------------------
(* Shared assertion lists (specification SpecAlias): instances are         *)
(* constructed, a caller appends to an instance's assertions in place,     *)
(* and saves run the assertions.                                           *)

ArgsA == { <<>>, <<"nonzero">> }
DataA == { Obj(0), Obj(1) }
LocA == <<Lit("f")>>

\* kind(name=..., loc=...) without an assertions argument
ConstructDefault ==
    /\ Len(res) < MaxRes
    /\ \E k \in Kinds :
         LET c == Construct(heap, k, "r" \o ToString(Len(res) + 1), LocA, NoColumns, 0)
         IN /\ res' = Append(res, c.r)
            /\ heap' = c.heap
            /\ last' = [NoCall EXCEPT !.op = "construct", !.rid = Len(res) + 1]
    /\ UNCHANGED <<files, dirs, hist, mk>>

\* kind(name=..., loc=..., assertions=[...]) with a list the caller just made
ConstructWith ==
    /\ Len(res) < MaxRes
    /\ \E k \in Kinds, g \in ArgsA :
         LET n == NewList(heap, g)
             c == Construct(n.heap, k, "r" \o ToString(Len(res) + 1), LocA, NoColumns, n.id)
         IN /\ res' = Append(res, c.r)
            /\ heap' = c.heap
            /\ last' = [NoCall EXCEPT !.op = "construct", !.rid = Len(res) + 1]
    /\ UNCHANGED <<files, dirs, hist, mk>>

\* r.assertions.append(a)
AppendInPlace ==
    /\ \E i \in DOMAIN res, a \in CallerAssertions :
         /\ Len(heap[res[i].alist]) < MaxList
         /\ heap' = [heap EXCEPT ![res[i].alist] = Append(@, a)]
         /\ last' = [NoCall EXCEPT !.op = "append", !.rid = i]
    /\ UNCHANGED <<files, dirs, res, hist, mk>>

SaveA ==
    \E i \in DOMAIN res, d \in DataA : Apply(_save(i, res[i], heap, d, <<>>, files, dirs))

InitAlias ==
    /\ files = NoFiles
    /\ dirs = {}
    /\ res = <<>>
    /\ heap = Defaults
    /\ last = NoCall
    /\ hist = <<>>
    /\ mk = <<>>

NextAlias == ConstructDefault \/ ConstructWith \/ AppendInPlace \/ SaveA

SpecAlias == InitAlias /\ [][NextAlias]_vars

\* C10: an in-place append to one instance's assertions leaves the assertions
\* that save runs for every other instance as they were.
C10_IndependentAssertions ==
    [][last'.op = "append"
        => \A j \in DOMAIN res : j # last'.rid
              => /\ heap'[res[j].alist] = heap[res[j].alist]
                 /\ \A d \in DataA :
                       assert_integrity(res[j], heap', d) = assert_integrity(res[j], heap, d)]_vars

-----------------------------------------------------------------------------
(* makedirs side by side (specification SpecMk): two processes, each       *)
(* calling LocalFileMixin.makedirs on a path of its choice, a system call  *)
(* at a time.  No directory exists at the start.                           *)

Procs == {1, 2}

PathsMk ==
    { <<"d", "e", "f">>, <<"d", "e", "g">>, <<"d", "f">>, <<"g", "e", "f">>, <<"f">> }

StoresMk == { NoFiles, [p \in {<<"g">>} |-> Empty] }

InitMk ==
    /\ files \in StoresMk
    /\ dirs = {}
    /\ res = <<>>
    /\ heap = Defaults
    /\ last = NoCall
    /\ hist = <<>>
    /\ mk = [p \in Procs |-> MkIdle]

\* self.makedirs(path) is entered
MkCall(p) ==
    /\ mk[p].pc = "idle"
    /\ \E path \in PathsMk : mk' = [mk EXCEPT ![p] = MkStart(path)]
    /\ UNCHANGED <<files, dirs, res, heap, last, hist>>

\* one os.path.exists or os.mkdir of the running os.makedirs
MkSyscall(p) ==
    /\ mk[p].pc \in {"up", "down"}
    /\ LET s == MkStep(mk[p], files, dirs)
       IN /\ mk' = [mk EXCEPT ![p] = s.m]
          /\ dirs' = s.dirs
    /\ UNCHANGED <<files, res, heap, last, hist>>

\* makedirs returns or raises, and the process is free to call it again
MkReturn(p) ==
    /\ mk[p].pc = "done"
    /\ mk' = [mk EXCEPT ![p] = MkIdle]
    /\ UNCHANGED <<files, dirs, res, heap, last, hist>>

NextMk == \E p \in Procs : MkCall(p) \/ MkSyscall(p) \/ MkReturn(p)

SpecMk == InitMk /\ [][NextMk]_vars

Ancestors(target) == {Prefix(target, n) : n \in 1..Len(target)}

\* C9: makedirs never touches a file and never removes a directory; a step of
\* a process creates at most one directory, a missing ancestor of its own
\* path; a finished makedirs has either succeeded with every ancestor in place
\* or failed because a regular file sits at an ancestor, never because a
\* directory was already there, whatever the other process did meanwhile.
C9_MakedirsCreateIfAbsent ==
    [][/\ files' = files
       /\ dirs \subseteq dirs'
       /\ \A p \in Procs :
            /\ mk'[p] # mk[p] => /\ dirs' \ dirs \subseteq Ancestors(mk[p].target)
                                 /\ Cardinality(dirs' \ dirs) <= 1
            /\ mk'[p].pc = "done" =>
                 \/ /\ mk'[p].err = "ok"
                    /\ Ancestors(mk'[p].target) \subseteq dirs'
                 \/ /\ mk'[p].err \in {"FileExistsError:file", "NotADirectoryError"}
                    /\ Ancestors(mk'[p].target) \cap DOMAIN files # {}]_vars

\* both processes have finished makedirs successfully on different paths that
\* share their first two ancestors
C9_Witness ==
    /\ mk[1].pc = "done" /\ mk[1].err = "ok"
    /\ mk[2].pc = "done" /\ mk[2].err = "ok"
    /\ mk[1].target = <<"d", "e">>
    /\ mk[2].target = <<"d", "e">>
    /\ {<<"d">>, <<"d", "e">>} \subseteq dirs

====
